---- MODULE Spec2Model ----
(***************************************************************************)
(* Model of bot.py: the majority-rule trading bot.                         *)
(*                                                                         *)
(* Units.  The program computes in binary floating point; the model uses   *)
(* exact integer fixed point:                                              *)
(*   prices (entry, tp, sl, exit, fetched prices)  in 1/100 of a quote unit*)
(*   pnl_usd after round(.,2)                      in cents                *)
(*   pnl_pct after round(.,4)                      in 1/10000 of a percent *)
(*   confidence                                    in 1/100                *)
(*   weights and exp()                             in 1/10000 (W_ONE = 1.0)*)
(*   sqrt()                                        in 1/100                *)
(* Fetched prices are whole quote units (multiples of 100), so that        *)
(* entry * (1 +- pct/100) is exact.  An absent value (Python None) is the  *)
(* empty sequence, a present value v is <<v>>.                             *)
(***************************************************************************)
EXTENDS Integers, Sequences, FiniteSets, TLC

\* ------------------------------------------------------------ configuration
TRADE_USD == 100
TP_PCT == 2
SL_PCT == 3
\* WEIGHT_LR = 0.04, in 1/100
WEIGHT_LR == 4
ENGINE_NAMES ==
  <<"GPT-5", "Grok", "Gemini", "Claude", "DeepSeek", "Perplexity", "Mistral", "Llama-3", "Falcon">>
SYMBOLS == <<"BTC/USDT", "ETH/USDT", "BNB/USDT">>
\* weights: 1.0 at init_db, clamp to [0.1, 20.0]
W_ONE == 10000
W_MIN == 1000
W_MAX == 200000

\* ------------------------------------------------------------------ bounds
\* cycles of main_loop that are started, positions that are opened
MaxCycles == 2
MaxSeq == 2
\* length of the vote collections given to majority_decision directly
MaxVotes == 5

\* the engines of ENGINE_NAMES that are polled, the symbols of SYMBOLS that are tracked
Engines == <<ENGINE_NAMES[1], ENGINE_NAMES[2]>>
Symbols == <<SYMBOLS[1], SYMBOLS[2]>>
Votes == {"buy", "sell", "hold"}
\* confidences stub_agent can return (0.45 .. 0.95, two decimals)
Confs == {80}
\* prices the ticker can report, 1/100 units
Prices == {-10000, 0, 10000, 10300}
\* what an order's average and price fields can hold
OrderPrices == {0, 10000}
\* prices given to simulate_open / simulate_close when they are called directly
CallEntries == {0, 100, 30000}
CallExits == {100, 9200, 30001}

None == <<>>
Some(v) == <<v>>

\* ------------------------------------------------------------- arithmetic
Abs(x) == IF x < 0 THEN -x ELSE x
Min(a, b) == IF a < b THEN a ELSE b
Max(a, b) == IF a > b THEN a ELSE b

\* round(num * a * b / den) for den # 0, ties to even, computed in two stages so
\* that no intermediate product leaves 32 bits
RoundScaled(num, a, b, den) ==
  LET sgn == IF (num < 0) = (den < 0) THEN 1 ELSE -1
      n == Abs(num)
      d == Abs(den)
      q1 == (n * a) \div d
      r1 == (n * a) % d
      whole == q1 * b + (r1 * b) \div d
      rem == (r1 * b) % d
  IN  sgn * (IF 2 * rem < d THEN whole
             ELSE IF 2 * rem > d THEN whole + 1
             ELSE IF whole % 2 = 0 THEN whole ELSE whole + 1)

RECURSIVE SqrtSearch(_, _, _)
SqrtSearch(v, lo, hi) ==
  IF lo >= hi THEN lo
  ELSE LET mid == (lo + hi + 1) \div 2
       IN  IF mid * mid <= v THEN SqrtSearch(v, mid, hi) ELSE SqrtSearch(v, lo, mid - 1)

\* math.sqrt(abs(pnl) + 1.0), pnl in cents, result in 1/100
SqrtPnl(pnl) == SqrtSearch((Abs(pnl) + 100) * 100, 0, 40000)

RECURSIVE ExpSeries(_, _, _, _)
ExpSeries(x, term, n, acc) ==
  IF term = 0 THEN acc
  ELSE ExpSeries(x, (term * x) \div (n * W_ONE), n + 1, acc + term)

\* old_w * factor, both in 1/10000
MulW(w, f) == w * (f \div W_ONE) + (w * (f % W_ONE)) \div W_ONE

\* e^x for x >= 0: the series up to 3.0, above it e^x = e^(x/2) * e^(x - x/2), which
\* keeps every product within 32 bits for the exponents the model's prices produce
RECURSIVE ExpPos(_)
ExpPos(x) ==
  IF x <= 3 * W_ONE THEN ExpSeries(x, W_ONE, 1, 0)
  ELSE MulW(ExpPos(x \div 2), ExpPos(x - x \div 2))

\* math.exp(x), x and result in 1/10000
Exp(x) == IF x >= 0 THEN ExpPos(x) ELSE (W_ONE * W_ONE) \div ExpPos(-x)

\* ----------------------------------------------------------------- state
VARIABLES
  LIVE_ORDERS,     \* configuration flag, fixed at startup
  open_positions,  \* trade_id -> position
  trade_seq,       \* last identifier allocated
  weights,         \* table engine_weights: engine -> weight
  trades,          \* table trades: row i has the AUTOINCREMENT id i
  engine_history,  \* table engine_history
  pc,              \* where main_loop stands
  cycle,           \* main_loop's cycle counter
  check_queue,     \* rest of list(open_positions.items()) still to be checked
  price_now,       \* main_loop's local price_now
  sym_idx,         \* index in SYMBOLS of the symbol being processed
  responses,       \* main_loop's local responses
  agg,             \* main_loop's local agg
  price,           \* main_loop's local price: what fetch_price gave for the open
  exec_price,      \* main_loop's local exec_price: what place_market_order gave
  order_attempts,  \* calls of exchange.create_market_order in this iteration
  last_call        \* the last direct call of an operation: its name, the identifier
                   \* given or allocated, the entry price given, what it returned

vars ==
  <<LIVE_ORDERS, open_positions, trade_seq, weights, trades, engine_history, pc, cycle,
    check_queue, price_now, sym_idx, responses, agg, price, exec_price, order_attempts,
    last_call>>

\* ------------------------------------------------------------ signal panel
\* what stub_agent can return for one engine
stub_agent(e) == {[engine |-> e, vote |-> v, confidence |-> c] : v \in Votes, c \in Confs}

RECURSIVE Flatten(_, _)
Flatten(f, n) == IF n = 0 THEN <<>> ELSE Flatten(f, n - 1) \o f[n]

\* what polling one engine gives.  stub_agent has no raising path, so the except
\* branch of collect_signals is never taken and every engine's response arrives.
PollOutcomes(e) == {Some(r) : r \in stub_agent(e)}

\* what collect_signals can return: the responses, in ENGINE_NAMES order
collect_signals ==
  {Flatten(f, Len(Engines)) :
     f \in {g \in [1..Len(Engines) -> UNION {PollOutcomes(Engines[i]) : i \in 1..Len(Engines)}] :
              \A i \in 1..Len(Engines) : g[i] \in PollOutcomes(Engines[i])}}

CountVotes(rs, v) == Cardinality({i \in 1..Len(rs) : rs[i].vote = v})

\* a tie resolved in favour of the first winner in counts order instead of hold
majority_decision_first_winner(rs) ==
  LET counts == [v \in Votes |-> CountVotes(rs, v)]
      max_votes == Max(counts["buy"], Max(counts["sell"], counts["hold"]))
  IN  [decision |-> IF counts["buy"] = max_votes THEN "buy"
                    ELSE IF counts["sell"] = max_votes THEN "sell" ELSE "hold",
       counts |-> counts]

RECURSIVE WeightedCount(_, _, _)
WeightedCount(rs, n, v) ==
  IF n = 0 THEN 0
  ELSE WeightedCount(rs, n - 1, v) +
       (IF rs[n].vote # v THEN 0
        ELSE IF rs[n].engine \in DOMAIN weights THEN weights[rs[n].engine] ELSE W_ONE)

\* each vote counted with its engine's weight instead of 1
majority_decision_weighted(rs) ==
  LET counts == [v \in Votes |-> CountVotes(rs, v)]
      sums == [v \in Votes |-> WeightedCount(rs, Len(rs), v)]
      max_votes == Max(sums["buy"], Max(sums["sell"], sums["hold"]))
      winners == {k \in Votes : sums[k] = max_votes}
  IN  IF Cardinality(winners) # 1
        THEN [decision |-> "hold", counts |-> counts]
        ELSE [decision |-> CHOOSE k \in winners : TRUE, counts |-> counts]

majority_decision(rs) ==
  LET counts == [v \in Votes |-> CountVotes(rs, v)]
      max_votes == Max(counts["buy"], Max(counts["sell"], counts["hold"]))
      winners == {k \in Votes : counts[k] = max_votes}
  IN  IF Cardinality(winners) # 1
        THEN [decision |-> "hold", counts |-> counts]
        ELSE [decision |-> CHOOSE k \in winners : TRUE, counts |-> counts]

\* ---------------------------------------------------------- position ledger
\* the long formula used for a short position too
TakeProfit_long_only(side, entry) == (entry * (100 + TP_PCT)) \div 100

TakeProfit(side, entry) ==
  IF side = "long" THEN (entry * (100 + TP_PCT)) \div 100 ELSE (entry * (100 - TP_PCT)) \div 100

StopLoss(side, entry) ==
  IF side = "long" THEN (entry * (100 - SL_PCT)) \div 100 ELSE (entry * (100 + SL_PCT)) \div 100

\* the position simulate_open builds; qty in 1/10000 base units
NewPosition(id, symbol, side, px) ==
  [trade_id |-> id, symbol |-> symbol, side |-> side, entry |-> px,
   qty |-> IF px > 0 THEN (TRADE_USD * 100 * W_ONE) \div px ELSE 0,
   tp |-> TakeProfit(side, px), sl |-> StopLoss(side, px),
   responses |-> <<>>]

\* the identifier taken from the open set instead of the counter: the smallest
\* one no open position holds
simulate_open_reuse(ops, seq, symbol, side, px) ==
  LET free == CHOOSE n \in 1..(seq + 1) : n \notin DOMAIN ops /\ \A k \in 1..(n - 1) : k \in DOMAIN ops
  IN  [id \in DOMAIN ops \cup {free} |->
         IF id = free THEN NewPosition(free, symbol, side, px) ELSE ops[id]]

\* open_positions after simulate_open
simulate_open(ops, seq, symbol, side, px) ==
  [id \in DOMAIN ops \cup {seq + 1} |->
     IF id = seq + 1 THEN NewPosition(seq + 1, symbol, side, px) ELSE ops[id]]

\* pos["responses"] = responses
AttachResponses(ops, id, rs) == [ops EXCEPT ![id].responses = rs]

\* exit_price - entry for a long, entry - exit_price for a short
PriceMove(pos, exit_price) ==
  IF pos.side = "long" THEN exit_price - pos.entry ELSE pos.entry - exit_price

\* pnl_usd > 0, on the unrounded value
PnlPositive(pos, exit_price) ==
  \/ PriceMove(pos, exit_price) > 0 /\ pos.entry > 0
  \/ PriceMove(pos, exit_price) < 0 /\ pos.entry < 0

\* the outcome test written pnl_usd >= 0
MakeTrade_win_on_zero(pos, exit_price) ==
  [trade_id |-> pos.trade_id, symbol |-> pos.symbol, side |-> pos.side,
   entry |-> pos.entry, exit |-> exit_price,
   pnl_usd |-> RoundScaled(PriceMove(pos, exit_price), 100, TRADE_USD, pos.entry),
   pnl_pct |-> RoundScaled(PriceMove(pos, exit_price), 1000, 1000, pos.entry),
   result |-> IF PnlPositive(pos, exit_price) \/ PriceMove(pos, exit_price) = 0
                THEN "win" ELSE "loss",
   details |-> pos]

\* the trade dict simulate_close builds (entry # 0)
MakeTrade(pos, exit_price) ==
  [trade_id |-> pos.trade_id, symbol |-> pos.symbol, side |-> pos.side,
   entry |-> pos.entry, exit |-> exit_price,
   pnl_usd |-> RoundScaled(PriceMove(pos, exit_price), 100, TRADE_USD, pos.entry),
   pnl_pct |-> RoundScaled(PriceMove(pos, exit_price), 1000, 1000, pos.entry),
   result |-> IF PnlPositive(pos, exit_price) THEN "win" ELSE "loss",
   details |-> pos]

\* the row INSERT INTO trades stores: the trade's columns under a fresh id
TradeRow(trade, rows) ==
  [id |-> Len(rows) + 1, symbol |-> trade.symbol, side |-> trade.side, entry |-> trade.entry,
   exit |-> trade.exit, pnl_usd |-> trade.pnl_usd, pnl_pct |-> trade.pnl_pct,
   result |-> trade.result, details |-> trade.details]

\* del open_positions[trade_id] left out
RemoveKey_keeps(ops, id) == ops

\* del open_positions[trade_id]
RemoveKey(ops, id) == [k \in DOMAIN ops \ {id} |-> ops[k]]

\* ------------------------------------------------------------ weight adapter
\* the clamp left out
Clamp_none(w) == w

\* max(0.1, min(new_w, 20.0))
Clamp(w) == Max(W_MIN, Min(w, W_MAX))

\* align with its sign turned: the vote on the profitable side is penalised
Score_inverted(r, pnl) ==
  LET profitable_side == IF pnl > 0 THEN "buy" ELSE "sell"
      align == IF r.vote = profitable_side THEN -1 ELSE 1
  IN  r.confidence * align * SqrtPnl(pnl)

\* conf * align * sqrt(abs(pnl) + 1.0), in 1/10000
Score(r, pnl) ==
  LET profitable_side == IF pnl > 0 THEN "buy" ELSE "sell"
      align == IF r.vote = profitable_side THEN 1 ELSE -1
  IN  r.confidence * align * SqrtPnl(pnl)

\* WEIGHT_LR * score, in 1/10000
Exponent(score) ==
  IF score >= 0 THEN (WEIGHT_LR * score) \div 100 ELSE -((WEIGHT_LR * (-score)) \div 100)

NewWeight(old_w, r, pnl) == Clamp(MulW(old_w, Exp(Exponent(Score(r, pnl)))))

\* the loop of update_weights_from_trade over responses[1..n]: old_w is read from
\* cur_weights, the table as it was before the loop
RECURSIVE WeightsAfter(_, _, _, _)
WeightsAfter(cur_weights, rs, n, pnl) ==
  IF n = 0 THEN cur_weights
  ELSE LET w == WeightsAfter(cur_weights, rs, n - 1, pnl)
           name == rs[n].engine
       IN  IF name \in DOMAIN w
             THEN [w EXCEPT ![name] = NewWeight(cur_weights[name], rs[n], pnl)]
             ELSE w

RECURSIVE HistoryRows(_, _, _)
HistoryRows(rs, n, trade) ==
  IF n = 0 THEN <<>>
  ELSE Append(HistoryRows(rs, n - 1, trade),
              [engine |-> rs[n].engine, trade_id |-> trade.trade_id,
               pnl |-> trade.pnl_usd, contrib |-> Score(rs[n], trade.pnl_usd)])

\* the pnl == 0 return left out
update_weights_always(trade, rs) ==
  /\ weights' = WeightsAfter(weights, rs, Len(rs), trade.pnl_usd)
  /\ engine_history' = engine_history \o HistoryRows(rs, Len(rs), trade)

update_weights_from_trade(trade, rs) ==
  IF trade.pnl_usd = 0
    THEN UNCHANGED <<weights, engine_history>>
    ELSE /\ weights' = WeightsAfter(weights, rs, Len(rs), trade.pnl_usd)
         /\ engine_history' = engine_history \o HistoryRows(rs, Len(rs), trade)

\* simulate_close for an open position with a nonzero entry
CloseEffects(trade_id, exit_price) ==
  LET pos == open_positions[trade_id]
      trade == MakeTrade(pos, exit_price)
  IN  /\ trades' = Append(trades, TradeRow(trade, trades))
      /\ update_weights_from_trade(trade, pos.responses)
      /\ open_positions' = RemoveKey(open_positions, trade_id)

\* a rejected close that still persists a row
CloseUnknown_persists ==
  /\ trades' = Append(trades, [id |-> Len(trades) + 1])
  /\ UNCHANGED <<open_positions, weights, engine_history>>

\* simulate_close for an identifier that is not open: return None
CloseUnknown == UNCHANGED <<open_positions, weights, trades, engine_history>>

\* (exit_price - entry) / entry raises ZeroDivisionError
CloseRaises(trade_id) == open_positions[trade_id].entry = 0

\* ------------------------------------------------------------------ startup
NoCall == [op |-> "none", id |-> 0, price |-> 0, ret |-> "none"]

Init ==
  /\ LIVE_ORDERS \in BOOLEAN
  /\ open_positions = <<>>
  /\ trade_seq = 0
  /\ weights = [e \in {Engines[i] : i \in 1..Len(Engines)} |-> W_ONE]
  /\ trades = <<>>
  /\ engine_history = <<>>
  /\ pc = "idle"
  /\ cycle = 0
  /\ check_queue = <<>>
  /\ price_now = None
  /\ sym_idx = 0
  /\ responses = <<>>
  /\ agg = None
  /\ price = None
  /\ exec_price = None
  /\ order_attempts = 0
  /\ last_call = NoCall

\* ---------------------------------------------------------------- main_loop
\* what fetch_price can return
fetch_price == {None} \cup {Some(p) : p \in Prices}

RECURSIVE Ascending(_)
Ascending(S) ==
  IF S = {} THEN <<>>
  ELSE LET m == CHOOSE x \in S : \A y \in S : x <= y
       IN  <<m>> \o Ascending(S \ {m})

\* the two branches in the other order: stop before target
evaluateTrigger_stop_first(pos, p) ==
  IF (pos.side = "long" /\ p <= pos.sl) \/ (pos.side = "short" /\ p >= pos.sl) THEN "sl"
  ELSE IF (pos.side = "long" /\ p >= pos.tp) \/ (pos.side = "short" /\ p <= pos.tp) THEN "tp"
  ELSE "none"

\* the if / elif of the position check: which level, if any, the price has hit
evaluateTrigger(pos, p) ==
  IF (pos.side = "long" /\ p >= pos.tp) \/ (pos.side = "short" /\ p <= pos.tp) THEN "tp"
  ELSE IF (pos.side = "long" /\ p <= pos.sl) \/ (pos.side = "short" /\ p >= pos.sl) THEN "sl"
  ELSE "none"

\* while True: cycle += 1; the for loop takes its copy of the open positions
BeginCycle ==
  /\ pc \in {"idle", "wait"}
  /\ cycle < MaxCycles
  /\ cycle' = cycle + 1
  /\ check_queue' = Ascending(DOMAIN open_positions)
  /\ pc' = "check"
  /\ UNCHANGED <<LIVE_ORDERS, price, exec_price, order_attempts,
                 open_positions, trade_seq, weights, trades, engine_history,
                 price_now, sym_idx, responses, agg, last_call>>

\* the continue on an unavailable price written as a break: the loop over the
\* open positions ends there
CheckPosition_break ==
  /\ pc = "check"
  /\ check_queue # <<>>
  /\ \E p \in fetch_price :
       LET tid == Head(check_queue)
           pos == open_positions[tid]
           hit == IF p = None THEN "none" ELSE evaluateTrigger(pos, p[1])
       IN  /\ price_now' = p
           /\ check_queue' = IF p = None THEN <<>> ELSE Tail(check_queue)
           /\ IF hit = "none"
                THEN /\ pc' = pc
                     /\ UNCHANGED <<open_positions, weights, trades, engine_history>>
                ELSE IF CloseRaises(tid)
                  THEN /\ pc' = "crashed"
                       /\ UNCHANGED <<open_positions, weights, trades, engine_history>>
                  ELSE /\ pc' = pc
                       /\ CloseEffects(tid, IF hit = "tp" THEN pos.tp ELSE pos.sl)
  /\ UNCHANGED <<LIVE_ORDERS, price, exec_price, order_attempts,
                 trade_seq, cycle, sym_idx, responses, agg, last_call>>

\* the close made at the price that was observed instead of the level hit
CheckPosition_at_price ==
  /\ pc = "check"
  /\ check_queue # <<>>
  /\ \E p \in fetch_price :
       LET tid == Head(check_queue)
           pos == open_positions[tid]
           hit == IF p = None THEN "none" ELSE evaluateTrigger(pos, p[1])
       IN  /\ price_now' = p
           /\ check_queue' = Tail(check_queue)
           /\ IF hit = "none"
                THEN /\ pc' = pc
                     /\ UNCHANGED <<open_positions, weights, trades, engine_history>>
                ELSE IF CloseRaises(tid)
                  THEN /\ pc' = "crashed"
                       /\ UNCHANGED <<open_positions, weights, trades, engine_history>>
                  ELSE /\ pc' = pc
                       /\ CloseEffects(tid, p[1])
  /\ UNCHANGED <<LIVE_ORDERS, price, exec_price, order_attempts,
                 trade_seq, cycle, sym_idx, responses, agg, last_call>>

\* one iteration of the loop over the open positions
CheckPosition ==
  /\ pc = "check"
  /\ check_queue # <<>>
  /\ \E p \in fetch_price :
       LET tid == Head(check_queue)
           pos == open_positions[tid]
           hit == IF p = None THEN "none" ELSE evaluateTrigger(pos, p[1])
       IN  /\ price_now' = p
           /\ check_queue' = Tail(check_queue)
           /\ IF hit = "none"
                THEN /\ pc' = pc
                     /\ UNCHANGED <<open_positions, weights, trades, engine_history>>
                ELSE IF CloseRaises(tid)
                  THEN /\ pc' = "crashed"
                       /\ UNCHANGED <<open_positions, weights, trades, engine_history>>
                  ELSE /\ pc' = pc
                       /\ CloseEffects(tid, IF hit = "tp" THEN pos.tp ELSE pos.sl)
  /\ UNCHANGED <<LIVE_ORDERS, price, exec_price, order_attempts,
                 trade_seq, cycle, sym_idx, responses, agg, last_call>>

\* the loop over the open positions left before its list is exhausted
FinishChecks_early ==
  /\ pc = "check"
  /\ pc' = "collect"
  /\ sym_idx' = 1
  /\ price_now' = None
  /\ UNCHANGED <<LIVE_ORDERS, price, exec_price, order_attempts,
                 open_positions, trade_seq, weights, trades, engine_history,
                 cycle, check_queue, responses, agg, last_call>>

\* the loop over the open positions is done; the loop over SYMBOLS starts
FinishChecks ==
  /\ pc = "check"
  /\ check_queue = <<>>
  /\ pc' = "collect"
  /\ sym_idx' = 1
  /\ price_now' = None
  /\ UNCHANGED <<LIVE_ORDERS, price, exec_price, order_attempts,
                 open_positions, trade_seq, weights, trades, engine_history,
                 cycle, check_queue, responses, agg, last_call>>

\* responses = collect_signals(symbol); agg = majority_decision(responses);
\* on hold the iteration ends here.  The locals of an iteration (responses, agg,
\* price_now) are kept while the iteration reads them and are absent
\* between iterations, where the code only overwrites them.
CollectSignals ==
  /\ pc = "collect"
  /\ sym_idx <= Len(Symbols)
  /\ \E rs \in collect_signals :
       IF majority_decision(rs).decision \in {"buy", "sell"}
         THEN /\ responses' = rs
              /\ agg' = Some(majority_decision(rs))
              /\ pc' = "open"
              /\ sym_idx' = sym_idx
         ELSE /\ responses' = <<>>
              /\ agg' = None
              /\ pc' = "collect"
              /\ sym_idx' = sym_idx + 1
  /\ price' = None
  /\ exec_price' = None
  /\ order_attempts' = 0
  /\ UNCHANGED <<LIVE_ORDERS, open_positions, trade_seq, weights, trades, engine_history,
                 cycle, check_queue, price_now, last_call>>

\* what exchange.create_market_order can do: raise, or return an order whose
\* average and price are each absent, 0 or a number
OrderFields == {None} \cup {Some(p) : p \in OrderPrices}
create_market_order ==
  {None} \cup {Some([average |-> a, price |-> q]) : a \in OrderFields, q \in OrderFields}

Truthy(v) == v # None /\ v[1] # 0

\* place_market_order: its own price fetch, the order, the executed price; a
\* price of 0 makes amount_usd / price raise, which the except turns into None
place_market_order(p2, order) ==
  IF p2 = None \/ p2[1] = 0 \/ order = None THEN None
  ELSE IF Truthy(order[1].average) THEN order[1].average
  ELSE IF Truthy(order[1].price) THEN order[1].price
  ELSE p2

\* simulate_open(symbol, side, entry); pos["responses"] = responses
OpenAndAttach(symbol, side, entry) ==
  /\ trade_seq' = trade_seq + 1
  /\ open_positions' =
       AttachResponses(simulate_open(open_positions, trade_seq, symbol, side, entry),
                       trade_seq + 1, responses)

\* an order failure answered by another attempt for the same symbol
OpenAt_retry(p, ex, n, entry) ==
  /\ price' = p
  /\ exec_price' = ex
  /\ order_attempts' = order_attempts + n
  /\ IF entry = None
       THEN /\ pc' = (IF n > 0 /\ order_attempts < 2 THEN "open" ELSE "collect")
            /\ sym_idx' = (IF n > 0 /\ order_attempts < 2 THEN sym_idx ELSE sym_idx + 1)
            /\ responses' = (IF n > 0 /\ order_attempts < 2 THEN responses ELSE <<>>)
            /\ agg' = (IF n > 0 /\ order_attempts < 2 THEN agg ELSE None)
            /\ UNCHANGED <<open_positions, trade_seq>>
       ELSE /\ OpenAndAttach(Symbols[sym_idx],
                             IF agg[1].decision = "buy" THEN "long" ELSE "short", entry[1])
            /\ pc' = "collect"
            /\ sym_idx' = sym_idx + 1
            /\ responses' = <<>>
            /\ agg' = None
  /\ UNCHANGED <<LIVE_ORDERS, weights, trades, engine_history, cycle, check_queue,
                 price_now, last_call>>

\* the rest of the iteration once the collaborators have answered: p is what
\* fetch_price gave, ex what place_market_order gave, n the orders sent, entry the
\* price to open at (None: continue with the next symbol)
OpenAt(p, ex, n, entry) ==
  /\ price' = p
  /\ exec_price' = ex
  /\ order_attempts' = order_attempts + n
  /\ IF entry = None
       THEN UNCHANGED <<open_positions, trade_seq>>
       ELSE OpenAndAttach(Symbols[sym_idx], IF agg[1].decision = "buy" THEN "long" ELSE "short",
                          entry[1])
  /\ pc' = "collect"
  /\ sym_idx' = sym_idx + 1
  /\ responses' = <<>>
  /\ agg' = None
  /\ UNCHANGED <<LIVE_ORDERS, weights, trades, engine_history, cycle, check_queue,
                 price_now, last_call>>

\* the decision is buy or sell, LIVE_ORDERS is off: fetch the price and open there
OpenSimulated ==
  /\ pc = "open"
  /\ ~LIVE_ORDERS
  /\ trade_seq < MaxSeq
  /\ \E p \in fetch_price : OpenAt(p, None, 0, p)

\* the decision is buy or sell, LIVE_ORDERS is on: fetch the price, place the
\* order (place_market_order fetches the price again and sends the order unless
\* that price is unavailable or 0) and open at the executed price
OpenLive ==
  /\ pc = "open"
  /\ LIVE_ORDERS
  /\ trade_seq < MaxSeq
  /\ \E p \in fetch_price :
       IF p = None
         THEN OpenAt(p, None, 0, None)
         ELSE \E p2 \in fetch_price, order \in create_market_order :
                OpenAt(p, place_market_order(p2, order),
                       IF p2 = None \/ p2[1] = 0 THEN 0 ELSE 1,
                       place_market_order(p2, order))

\* the loop over SYMBOLS is done: housekeeping, time.sleep(CYCLE_SECONDS)
EndCycle ==
  /\ pc = "collect"
  /\ sym_idx > Len(Symbols)
  /\ pc' = "wait"
  /\ price' = None
  /\ exec_price' = None
  /\ order_attempts' = 0
  /\ UNCHANGED <<LIVE_ORDERS, open_positions, trade_seq, weights, trades, engine_history,
                 cycle, check_queue, price_now, sym_idx, responses, agg, last_call>>

Next ==
  \/ BeginCycle
  \/ CheckPosition
  \/ FinishChecks
  \/ CollectSignals
  \/ OpenSimulated
  \/ OpenLive
  \/ EndCycle

Spec == Init /\ [][Next]_vars

\* ------------------------------------------------- the operations called directly
\* The position ledger called by a caller other than main_loop: simulate_open
\* and simulate_close with any arguments, in any order.

\* the responses a caller attaches to the position it opened: none, or a
\* collected panel in which the first engine voted buy and the second sell
CallResponses ==
  {<<>>} \cup {rs \in collect_signals : rs[1].vote = "buy" /\ rs[2].vote = "sell"}

\* pos = simulate_open(symbol, side, px); pos["responses"] = rs
CallSimulateOpen ==
  /\ pc = "idle"
  /\ cycle = 0
  /\ trade_seq < MaxSeq
  /\ \E side \in {"long", "short"}, px \in CallEntries, rs \in CallResponses :
       /\ trade_seq' = trade_seq + 1
       /\ open_positions' =
            AttachResponses(simulate_open(open_positions, trade_seq, Symbols[1], side, px),
                            trade_seq + 1, rs)
       /\ last_call' = [op |-> "simulate_open", id |-> trade_seq + 1, price |-> px, ret |-> "pos"]
  /\ UNCHANGED <<LIVE_ORDERS, price, exec_price, order_attempts,
                 weights, trades, engine_history, pc, cycle, check_queue,
                 price_now, sym_idx, responses, agg>>

\* simulate_close(trade_id, exit_price)
CallSimulateClose ==
  /\ pc = "idle"
  /\ cycle = 0
  /\ \E trade_id \in 1..(trade_seq + 1), exit_price \in CallExits :
       IF trade_id \notin DOMAIN open_positions
         THEN /\ last_call' = [op |-> "simulate_close", id |-> trade_id, price |-> 0, ret |-> "None"]
              /\ CloseUnknown
         ELSE IF CloseRaises(trade_id)
           THEN /\ last_call' = [op |-> "simulate_close", id |-> trade_id, price |-> 0,
                                 ret |-> "ZeroDivisionError"]
                /\ UNCHANGED <<open_positions, weights, trades, engine_history>>
           ELSE /\ last_call' = [op |-> "simulate_close", id |-> trade_id, price |-> 0,
                                 ret |-> "trade"]
                /\ CloseEffects(trade_id, exit_price)
  /\ UNCHANGED <<LIVE_ORDERS, price, exec_price, order_attempts,
                 trade_seq, pc, cycle, check_queue, price_now, sym_idx,
                 responses, agg>>

NextOps ==
  \/ CallSimulateOpen
  \/ CallSimulateClose

\* the operations do not read LIVE_ORDERS
InitOps == Init /\ ~LIVE_ORDERS

SpecOps == InitOps /\ [][NextOps]_vars

\* ------------------------------------------- majority_decision called directly
\* the vote collections of up to MaxVotes votes, the i-th cast by the i-th engine
RECURSIVE VoteLists(_)
VoteLists(n) ==
  IF n = 0 THEN {<<>>}
  ELSE VoteLists(n - 1) \cup
       {Append(rs, r) : rs \in {l \in VoteLists(n - 1) : Len(l) = n - 1},
                        r \in stub_agent(ENGINE_NAMES[n])}

\* the program after simulate_open(SYMBOLS[1], "long", 1.00), the panel in which
\* the first engine voted buy and the second sell attached, and
\* simulate_close(1, 300.01): the state SpecOps reaches by these two calls
ClosedOnce ==
  LET panel == CHOOSE rs \in CallResponses : rs # <<>>
      w0 == [e \in {Engines[i] : i \in 1..Len(Engines)} |-> W_ONE]
      pos == AttachResponses(simulate_open(<<>>, 0, Symbols[1], "long", 100), 1, panel)[1]
      trade == MakeTrade(pos, 30001)
  IN  [trade_seq |-> 1,
       weights |-> WeightsAfter(w0, panel, Len(panel), trade.pnl_usd),
       trades |-> <<TradeRow(trade, <<>>)>>,
       engine_history |-> HistoryRows(panel, Len(panel), trade),
       last_call |-> [op |-> "simulate_close", id |-> 1, price |-> 0, ret |-> "trade"]]

\* majority_decision is called on a fresh program or after a trade has closed
\* and moved the weights
InitVotes ==
  /\ LIVE_ORDERS = FALSE
  /\ open_positions = <<>>
  /\ \/ /\ trade_seq = 0
        /\ weights = [e \in {Engines[i] : i \in 1..Len(Engines)} |-> W_ONE]
        /\ trades = <<>>
        /\ engine_history = <<>>
        /\ last_call = NoCall
     \/ /\ trade_seq = ClosedOnce.trade_seq
        /\ weights = ClosedOnce.weights
        /\ trades = ClosedOnce.trades
        /\ engine_history = ClosedOnce.engine_history
        /\ last_call = ClosedOnce.last_call
  /\ pc = "idle"
  /\ cycle = 0
  /\ check_queue = <<>>
  /\ price_now = None
  /\ sym_idx = 0
  /\ responses \in VoteLists(MaxVotes)
  /\ agg = None
  /\ price = None
  /\ exec_price = None
  /\ order_attempts = 0

\* agg = majority_decision(responses)
Decide ==
  /\ agg = None
  /\ agg' = Some(majority_decision(responses))
  /\ UNCHANGED <<LIVE_ORDERS, price, exec_price, order_attempts,
                 open_positions, trade_seq, weights, trades, engine_history,
                 pc, cycle, check_queue, price_now, sym_idx, responses, last_call>>

NextVotes == Decide

SpecVotes == InitVotes /\ [][NextVotes]_vars

\* ================================================================== claims
VoteCount(v) == Cardinality({i \in 1..Len(responses) : responses[i].vote = v})

\* C1: for every collection of votes, the empty one included, majority_decision
\* returns buy, sell or hold; when one bucket alone has the largest count it
\* returns that bucket's action, and on every tie and on no votes it returns hold.
C1_MajorityOrHold ==
  agg # None =>
    LET d == agg[1].decision
        b == VoteCount("buy")
        sl == VoteCount("sell")
        h == VoteCount("hold")
    IN  /\ d \in {"buy", "sell", "hold"}
        /\ (b > sl /\ b > h) => d = "buy"
        /\ (sl > b /\ sl > h) => d = "sell"
        /\ (h > b /\ h > sl) => d = "hold"
        /\ ~(b > sl /\ b > h) /\ ~(sl > b /\ sl > h) => d = "hold"

\* C1 witness: the decision on buy, buy, sell, hold, hold (buy and hold tie at 2)
C1_Witness ==
  /\ agg # None
  /\ Len(responses) = 5
  /\ VoteCount("buy") = 2
  /\ VoteCount("hold") = 2
  /\ VoteCount("sell") = 1
  /\ agg[1].decision = "hold"

\* C2 (as claimed): an open attempt with an entry price <= 0 adds no position and
\* consumes no identifier; so whenever the open set grows or trade_seq moves, the
\* position that was added has an entry price > 0.
C2_NonPositiveEntryRejected ==
  [][(trade_seq' # trade_seq \/ DOMAIN open_positions' \ DOMAIN open_positions # {})
       => /\ trade_seq' \in DOMAIN open_positions'
          /\ open_positions'[trade_seq'].entry > 0]_vars

\* C3: simulate_close of an identifier that is not in the open set changes
\* nothing: no trade row, the open set, the weights and the attribution records
\* stay as they were.
C3_CloseUnknownNoEffect ==
  [][(last_call'.op = "simulate_close" /\ last_call'.id \notin DOMAIN open_positions)
       => /\ trades' = trades
          /\ open_positions' = open_positions
          /\ weights' = weights
          /\ engine_history' = engine_history]_vars

\* C3 witness: a close of an identifier that is not open has returned None,
\* while another position is open and an earlier trade is recorded
C3_Witness ==
  /\ last_call.op = "simulate_close"
  /\ last_call.ret = "None"
  /\ last_call.id \notin DOMAIN open_positions
  /\ open_positions # <<>>
  /\ trades # <<>>

LevelsFromEntry(p) ==
  IF p.side = "long"
    THEN 100 * p.tp = p.entry * (100 + 2) /\ 100 * p.sl = p.entry * (100 - 3)
    ELSE 100 * p.tp = p.entry * (100 - 2) /\ 100 * p.sl = p.entry * (100 + 3)

\* C4: every open position's target and stop are the values computed from its
\* entry price (long: entry * 1.02 and entry * 0.97; short: entry * 0.98 and
\* entry * 1.03), and no step changes the entry, target or stop of a position
\* that stays open.
C4_LevelsFixedAtOpen ==
  /\ [](\A id \in DOMAIN open_positions : LevelsFromEntry(open_positions[id]))
  /\ [][\A id \in DOMAIN open_positions \cap DOMAIN open_positions' :
          /\ open_positions'[id].entry = open_positions[id].entry
          /\ open_positions'[id].tp = open_positions[id].tp
          /\ open_positions'[id].sl = open_positions[id].sl]_vars

\* C4 witness: a long position opened at 100.00 with target 102.00 and stop 97.00
\* is still open with its votes attached, after another position was closed, the
\* weights were updated and its own trigger check found nothing
C4_Witness ==
  /\ pc = "check"
  /\ check_queue = <<>>
  /\ price_now # None
  /\ trades # <<>>
  /\ \E e \in DOMAIN weights : weights[e] # 10000
  /\ \E id \in DOMAIN open_positions :
       /\ open_positions[id].side = "long"
       /\ open_positions[id].entry = 10000
       /\ open_positions[id].tp = 10200
       /\ open_positions[id].sl = 9700
       /\ open_positions[id].responses # <<>>

\* the check of position tid has closed it at level x: a trade row with exit x is
\* added and the position leaves the open set (for an entry of 0 the close is
\* entered and raises)
ClosedAt(tid, x) ==
  IF open_positions[tid].entry = 0
    THEN pc' = "crashed"
    ELSE /\ tid \notin DOMAIN open_positions'
         /\ Len(trades') = Len(trades) + 1
         /\ trades'[Len(trades')].details.trade_id = tid
         /\ trades'[Len(trades')].exit = x

\* C5: in the position check with a price p, a long position is closed at its
\* target when p >= target, else at its stop when p <= stop; a short position at
\* its target when p <= target, else at its stop when p >= stop; target is decided
\* first when both hold; otherwise the position stays open and unchanged.
C5_TriggerRule ==
  [][(pc = "check" /\ check_queue # <<>> /\ price_now' # None)
       => LET tid == Head(check_queue)
              pos == open_positions[tid]
              p == price_now'[1]
              target == IF pos.side = "long" THEN p >= pos.tp ELSE p <= pos.tp
              stop == IF pos.side = "long" THEN p <= pos.sl ELSE p >= pos.sl
          IN  /\ target => ClosedAt(tid, pos.tp)
              /\ (~target /\ stop) => ClosedAt(tid, pos.sl)
              /\ (~target /\ ~stop) =>
                   /\ open_positions' = open_positions
                   /\ trades' = trades
                   /\ weights' = weights
                   /\ pc' = "check"]_vars

\* C5 witness: the only open position, long at 100.00, was checked at 100.00,
\* strictly between its stop 97.00 and its target 102.00, and is still open
C5_Witness ==
  /\ pc = "check"
  /\ check_queue = <<>>
  /\ price_now = Some(10000)
  /\ trade_seq = 1
  /\ DOMAIN open_positions = {1}
  /\ open_positions[1].side = "long"
  /\ open_positions[1].sl < 10000
  /\ open_positions[1].tp > 10000
  /\ trades = <<>>

Sign(x) == IF x > 0 THEN 1 ELSE IF x < 0 THEN -1 ELSE 0

\* the sign of a trade row's dollar profit, TRADE_USD * (move / entry)
ProfitSign(t) ==
  (IF t.side = "long" THEN Sign(t.exit - t.entry) ELSE Sign(t.entry - t.exit)) * Sign(t.entry)

\* C6: a trade is a win exactly when its dollar profit is strictly positive, so a
\* profit of exactly 0 is a loss; a position closed at its entry price gives a
\* percent profit of exactly 0 and a loss, long or short.
C6_WinIffPositive ==
  \A i \in 1..Len(trades) :
    /\ trades[i].result = "win" <=> ProfitSign(trades[i]) > 0
    /\ trades[i].result \in {"win", "loss"}
    /\ trades[i].exit = trades[i].entry => trades[i].pnl_pct = 0 /\ trades[i].result = "loss"

\* C6 witness: a long and a short position have each been closed at their entry price
C6_Witness ==
  \E i, j \in 1..Len(trades) :
    /\ trades[i].side = "long" /\ trades[i].exit = trades[i].entry
    /\ trades[j].side = "short" /\ trades[j].exit = trades[j].entry

ClosedIds == {trades[i].details.trade_id : i \in 1..Len(trades)}

\* C7: a position is in the open set exactly when it was opened and has not been
\* closed; every position has at most one trade row; and the open set changes
\* only by an open, which adds the one new identifier, or by a close, which
\* removes the one closed identifier and records its trade.
C7_OpenSetLifecycle ==
  /\ [](/\ DOMAIN open_positions = (1..trade_seq) \ ClosedIds
        /\ ClosedIds \subseteq 1..trade_seq
        /\ \A i, j \in 1..Len(trades) :
             i # j => trades[i].details.trade_id # trades[j].details.trade_id)
  /\ [][DOMAIN open_positions' # DOMAIN open_positions =>
          \/ /\ trade_seq' = trade_seq + 1
             /\ DOMAIN open_positions' = DOMAIN open_positions \cup {trade_seq + 1}
             /\ trade_seq + 1 \notin DOMAIN open_positions
             /\ trades' = trades
          \/ \E id \in DOMAIN open_positions :
               /\ DOMAIN open_positions' = DOMAIN open_positions \ {id}
               /\ trade_seq' = trade_seq
               /\ Len(trades') = Len(trades) + 1
               /\ trades'[Len(trades')].details.trade_id = id]_vars

\* C7 witness: of two positions opened, one is closed and has its trade row, the
\* other is open, and a second close of the closed one has been rejected
C7_Witness ==
  /\ trade_seq = 2
  /\ Len(trades) = 1
  /\ Cardinality(DOMAIN open_positions) = 1
  /\ last_call.op = "simulate_close"
  /\ last_call.ret = "None"
  /\ last_call.id \in ClosedIds

\* C8: every weight is 1.0 before any trade has closed, and lies in [0.1, 20.0]
\* in every reachable state.
C8_WeightsBounded ==
  \A e \in DOMAIN weights :
    /\ weights[e] >= 1000
    /\ weights[e] <= 200000
    /\ (trades = <<>>) => weights[e] = 10000

\* C8 witness: one weight stands at 20.0 and another at 0.1 after closed trades
C8_Witness ==
  /\ trades # <<>>
  /\ \E e1, e2 \in DOMAIN weights : weights[e1] = 200000 /\ weights[e2] = 1000

\* a close has just recorded the trade row r
NewTradeRow == Len(trades') = Len(trades) + 1

\* C9: when a closed trade's dollar profit is exactly 0, no weight changes and
\* no attribution record is appended.
C9_ZeroProfitNoUpdate ==
  [][(NewTradeRow /\ ProfitSign(trades'[Len(trades')]) = 0)
       => weights' = weights /\ engine_history' = engine_history]_vars

\* C9 witness: the last call closed a position that carried votes at its entry price
C9_Witness ==
  /\ last_call.op = "simulate_close"
  /\ last_call.ret = "trade"
  /\ trades # <<>>
  /\ trades[Len(trades)].details.trade_id = last_call.id
  /\ trades[Len(trades)].exit = trades[Len(trades)].entry
  /\ trades[Len(trades)].details.responses # <<>>

\* C10 (as claimed): whenever a position closes with a dollar profit different
\* from 0, however small, the weight update runs and appends one attribution
\* record per vote attached to the position; a win always updates.
C10_NonZeroProfitUpdates ==
  [][(NewTradeRow /\ ProfitSign(trades'[Len(trades')]) # 0)
       => Len(engine_history') =
            Len(engine_history) + Len(trades'[Len(trades')].details.responses)]_vars

\* the votes attached to the position whose trade row has just been recorded
ClosedVotes == trades'[Len(trades')].details.responses

\* a close has just recorded a winning trade of the given side
WinRecorded(side) ==
  /\ NewTradeRow
  /\ trades'[Len(trades')].side = side
  /\ trades'[Len(trades')].result = "win"

\* C11 (as claimed): when a winning long trade closes, every attached buy vote's
\* engine has its weight strictly increased and every attached sell vote's engine
\* has its weight strictly decreased, whatever the weight was before (0.1 and
\* 20.0 included).
C11_WinningLongStrict ==
  [][WinRecorded("long") =>
       \A i \in 1..Len(ClosedVotes) :
         LET e == ClosedVotes[i].engine
         IN  /\ ClosedVotes[i].vote = "buy" => weights'[e] > weights[e]
             /\ ClosedVotes[i].vote = "sell" => weights'[e] < weights[e]]_vars

\* C11 (amended): when a winning long trade closes, a buy voter's weight never
\* decreases and a sell voter's never increases; when the recorded profit is at
\* least one cent the buy voter's weight strictly increases unless it already is
\* 20.0, where it stays, and the sell voter's strictly decreases unless it
\* already is 0.1, where it stays.
C11_WinningLongDirection ==
  [][WinRecorded("long") =>
       \A i \in 1..Len(ClosedVotes) :
         LET e == ClosedVotes[i].engine
             moved == trades'[Len(trades')].pnl_usd # 0
         IN  /\ ClosedVotes[i].vote = "buy" =>
                  /\ weights'[e] >= weights[e]
                  /\ (moved /\ weights[e] < 200000) => weights'[e] > weights[e]
                  /\ weights[e] = 200000 => weights'[e] = 200000
             /\ ClosedVotes[i].vote = "sell" =>
                  /\ weights'[e] <= weights[e]
                  /\ (moved /\ weights[e] > 1000) => weights'[e] < weights[e]
                  /\ weights[e] = 1000 => weights'[e] = 1000]_vars

\* C11 witness: two winning long trades with a buy and a sell vote attached have
\* closed; the second found the buy voter already at 20.0 and the sell voter
\* already at 0.1, and left them there
C11_Witness ==
  /\ Len(trades) = 2
  /\ \A i \in 1..2 :
       /\ trades[i].side = "long"
       /\ trades[i].result = "win"
       /\ trades[i].pnl_usd > 0
       /\ Len(trades[i].details.responses) = 2
       /\ trades[i].details.responses[1].vote = "buy"
       /\ trades[i].details.responses[2].vote = "sell"
  /\ Len(engine_history) = 4
  /\ weights[Engines[1]] = 200000
  /\ weights[Engines[2]] = 1000

\* C12 (as claimed): when a position closes with positive profit, a source whose
\* vote matched the position's direction (sell for a short, buy for a long) has
\* a weight not lower than before, and a source that voted the opposite
\* direction has a weight not higher than before.  Stated of positions with a
\* positive entry price.
C12_CorrectVoterNeverLoses ==
  [][\A side \in {"long", "short"} :
       (WinRecorded(side) /\ trades'[Len(trades')].entry > 0) =>
         \A i \in 1..Len(ClosedVotes) :
           LET e == ClosedVotes[i].engine
               with == IF side = "long" THEN "buy" ELSE "sell"
               against == IF side = "long" THEN "sell" ELSE "buy"
           IN  /\ ClosedVotes[i].vote = with => weights'[e] >= weights[e]
               /\ ClosedVotes[i].vote = against => weights'[e] <= weights[e]]_vars

\* a step of main_loop has opened a position
Opened == trade_seq' = trade_seq + 1

\* C13 (as claimed): in every cycle all trigger checks are done before any signal
\* is collected, and the signals of all tracked instruments are collected before
\* any position of the cycle is opened: when a position is opened no instrument
\* is still waiting for its collection.
C13_PhasesOrdered ==
  /\ [](pc \in {"collect", "open"} => check_queue = <<>>)
  /\ [][Opened => sym_idx = Len(Symbols)]_vars

\* C13 (amended): in every cycle all trigger checks are done before any signal is
\* collected and no position is closed once collection has begun; for each
\* instrument, in SYMBOLS order, the signals are collected and decided before the
\* position for that instrument is opened with exactly those votes attached, and
\* the instruments are processed one after the other, each once.
C13_ChecksThenPerSymbol ==
  /\ [](pc \in {"collect", "open"} => check_queue = <<>>)
  /\ [](pc = "open" => /\ agg # None
                       /\ responses # <<>>
                       /\ agg[1] = majority_decision(responses)
                       /\ agg[1].decision \in {"buy", "sell"})
  /\ [][(pc = "collect" \/ pc = "open") =>
          /\ trades' = trades
          /\ DOMAIN open_positions \subseteq DOMAIN open_positions'
          /\ cycle' = cycle
          /\ sym_idx' \in {sym_idx, sym_idx + 1}
          /\ (pc' = "open" => (pc = "collect" /\ sym_idx' = sym_idx))]_vars
  /\ [][Opened =>
          /\ pc = "open"
          /\ sym_idx' = sym_idx + 1
          /\ open_positions'[trade_seq'].symbol = Symbols[sym_idx]
          /\ open_positions'[trade_seq'].responses = responses
          /\ open_positions'[trade_seq'].side =
               (IF agg[1].decision = "buy" THEN "long" ELSE "short")]_vars

\* C13 witness: in the second cycle the position opened in the first was closed
\* in the check phase, then a position was opened for the first instrument, and
\* only after that the signals of the second instrument were collected
C13_Witness ==
  /\ cycle = 2
  /\ pc = "open"
  /\ sym_idx = 2
  /\ trade_seq = 2
  /\ Len(trades) = 1
  /\ trades[1].details.trade_id = 1
  /\ 2 \in DOMAIN open_positions
  /\ open_positions[2].symbol = Symbols[1]

\* the check of the next open position found its price unavailable
PriceUnavailable == pc = "check" /\ check_queue # <<>> /\ price_now' = None

\* C14: when the price of an open position's instrument is unavailable at its
\* check, the position is neither closed nor modified, no trade row, weight or
\* attribution record changes, and the check loop goes on with the remaining
\* open positions; nothing else in the cycle closes or modifies a position
\* outside its own check.
C14_UnavailablePriceSkips ==
  /\ [][PriceUnavailable =>
          /\ open_positions' = open_positions
          /\ trades' = trades
          /\ weights' = weights
          /\ engine_history' = engine_history
          /\ pc' = "check"
          /\ cycle' = cycle
          /\ check_queue' = Tail(check_queue)]_vars
  /\ [][\A id \in DOMAIN open_positions :
          (pc # "check" \/ check_queue = <<>> \/ id # Head(check_queue)) =>
            (id \in DOMAIN open_positions' /\ open_positions'[id] = open_positions[id])]_vars

\* C14 witness: in the second cycle the price for position 1 was unavailable;
\* position 1 is still open next to position 2, which is the next to be checked,
\* and nothing has been recorded
C14_Witness ==
  /\ cycle = 2
  /\ pc = "check"
  /\ price_now = None
  /\ check_queue = <<2>>
  /\ DOMAIN open_positions = {1, 2}
  /\ trades = <<>>
  /\ engine_history = <<>>

\* the open step for the current symbol has failed: the price was unavailable
\* or, with LIVE_ORDERS, place_market_order gave no executed price
OpenFailed == pc = "open" /\ (price' = None \/ (LIVE_ORDERS /\ exec_price' = None))

\* C15: when the price fetch or, with LIVE_ORDERS, the order fails for an
\* instrument, no position is opened and no identifier is consumed, the loop
\* moves on to the next instrument, and the failed instrument is not returned to
\* in the cycle (positions are only ever opened for the instrument being
\* processed, and the index only advances); at most one order is sent per
\* instrument per cycle, none without LIVE_ORDERS.
C15_OpenFailureSkips ==
  /\ [][OpenFailed =>
          /\ open_positions' = open_positions
          /\ trade_seq' = trade_seq
          /\ pc' = "collect"
          /\ sym_idx' = sym_idx + 1
          /\ cycle' = cycle]_vars
  /\ [][(pc = "collect" \/ pc = "open") => sym_idx' >= sym_idx]_vars
  /\ [][Opened => /\ open_positions'[trade_seq'].symbol = Symbols[sym_idx]
                  /\ price' # None
                  /\ LIVE_ORDERS => exec_price' # None]_vars
  /\ [](order_attempts \in {0, 1} /\ (~LIVE_ORDERS => order_attempts = 0))

\* C15 witness: with LIVE_ORDERS, the order for the first instrument was sent
\* once and failed although its price was available; nothing was opened and the
\* second instrument is next
C15_Witness ==
  /\ LIVE_ORDERS
  /\ pc = "collect"
  /\ sym_idx = 2
  /\ price # None
  /\ exec_price = None
  /\ order_attempts = 1
  /\ open_positions = <<>>
  /\ trade_seq = 0

\* C16 (as claimed): whatever the collaborators return, main_loop is always at
\* one of the steps of its cycle (idle before the first cycle, checking,
\* collecting, opening, waiting) and never in a state it cannot continue from.
C16_NoCollaboratorResultAborts == pc \in {"idle", "check", "collect", "open", "wait"}

\* the identifiers that have been given to a position so far
AllocatedIds == DOMAIN open_positions \cup ClosedIds

\* C17: every open allocates the identifier trade_seq + 1, which is greater than
\* every identifier allocated before and is held by no open or closed position;
\* the counter never goes back, and every position carries the identifier it is
\* stored under.
C17_IdentifiersSequential ==
  /\ [](/\ AllocatedIds \subseteq 1..trade_seq
        /\ \A id \in DOMAIN open_positions : open_positions[id].trade_id = id)
  /\ [][trade_seq' >= trade_seq]_vars
  /\ [][(DOMAIN open_positions' \ DOMAIN open_positions # {} \/ trade_seq' # trade_seq) =>
          /\ trade_seq' = trade_seq + 1
          /\ DOMAIN open_positions' \ DOMAIN open_positions = {trade_seq'}
          /\ trade_seq' \notin AllocatedIds
          /\ \A id \in AllocatedIds : id < trade_seq'
          /\ open_positions'[trade_seq'].trade_id = trade_seq']_vars

\* C17 witness: position 1 was opened and closed, and the open after that was
\* given the identifier 2, not 1 again
C17_Witness ==
  /\ last_call.op = "simulate_open"
  /\ last_call.id = 2
  /\ trade_seq = 2
  /\ ClosedIds = {1}
  /\ DOMAIN open_positions = {2}
  /\ open_positions[2].trade_id = 2

\* confidences other than the one the vote collections of the model carry
OtherConfs == {45, 95}

AllVoteLists == VoteLists(MaxVotes)

\* rs with the confidence of its i-th vote replaced by c
Reconfident(rs, i, c) == [rs EXCEPT ![i].confidence = c]

\* rs with its votes cast by other engines: the i-th by the (i + k)-th of ENGINE_NAMES
Recast(rs, k) ==
  [i \in 1..Len(rs) |-> [rs[i] EXCEPT !.engine = ENGINE_NAMES[((i + k - 1) % Len(ENGINE_NAMES)) + 1]]]

SameCounts(rs1, rs2) == \A v \in Votes : CountVotes(rs1, v) = CountVotes(rs2, v)

\* C18: the decision taken on a vote collection is the decision on every other
\* collection with the same buy/sell/hold counts: the same votes in any other
\* order (so cast by other engines), with any vote's confidence changed, with
\* the engines renamed; and this with the weights at 1.0 as well as with the
\* weights a closed trade has moved to 20.0 and 0.1.
C18_DecisionFromCountsOnly ==
  agg # None =>
    \A rs2 \in AllVoteLists :
      SameCounts(responses, rs2) =>
        /\ majority_decision(rs2).decision = agg[1].decision
        /\ \A i \in 1..Len(rs2), c \in OtherConfs :
             majority_decision(Reconfident(rs2, i, c)).decision = agg[1].decision
        /\ \A k \in 1..2 : majority_decision(Recast(rs2, k)).decision = agg[1].decision

\* C18 witness: after a trade has moved the weights to 20.0 and 0.1, the decision
\* on buy (first engine), sell (second engine), hold is hold, a three-way tie
\* that the two weights or another order would resolve differently
C18_Witness ==
  /\ agg # None
  /\ trades # <<>>
  /\ weights[Engines[1]] = 200000
  /\ weights[Engines[2]] = 1000
  /\ Len(responses) = 3
  /\ responses[1].vote = "buy"
  /\ responses[2].vote = "sell"
  /\ responses[3].vote = "hold"
  /\ agg[1].decision = "hold"

\* C19 (as claimed): the attribution records a close appends carry, as their
\* trade identifier, the identifier under which that close's trade row is stored
\* in the trades table.
C19_AttributionNamesStoredTrade ==
  [][NewTradeRow =>
       \A k \in (Len(engine_history) + 1)..Len(engine_history') :
         engine_history'[k].trade_id = trades'[Len(trades')].id]_vars

\* C20: a trade recorded by the position check of main_loop is the trade of the
\* position being checked and its exit is that position's target or stop, not
\* the price observed: when the target condition holds the exit is the target
\* and, for a positive entry, the trade is a win with positive profit; otherwise
\* the exit is the stop and the trade is a loss with negative profit; no such
\* trade has a profit of 0.
C20_ClosedAtTriggerLevel ==
  [][(pc = "check" /\ NewTradeRow) =>
       LET tid == Head(check_queue)
           pos == open_positions[tid]
           p == price_now'[1]
           t == trades'[Len(trades')]
           target == IF pos.side = "long" THEN p >= pos.tp ELSE p <= pos.tp
       IN  /\ price_now' # None
           /\ t.details.trade_id = tid
           /\ t.entry = pos.entry
           /\ target => /\ t.exit = pos.tp
                        /\ pos.entry > 0 => (t.result = "win" /\ t.pnl_usd > 0)
           /\ ~target => /\ t.exit = pos.sl
                         /\ t.result = "loss"
                         /\ t.pnl_usd < 0
           /\ t.pnl_usd # 0
           /\ ProfitSign(t) # 0]_vars

\* C20 witness: in one check phase a long position opened at 100.00 was closed at
\* its target 102.00 as a win of 2.00, and another at its stop 97.00 as a loss of
\* 3.00, the price observed at the second check being 0.00
C20_Witness ==
  /\ pc = "check"
  /\ check_queue = <<>>
  /\ price_now = Some(0)
  /\ Len(trades) = 2
  /\ \A i \in 1..2 : trades[i].side = "long" /\ trades[i].entry = 10000
  /\ trades[1].exit = 10200
  /\ trades[1].result = "win"
  /\ trades[1].pnl_usd = 200
  /\ trades[2].exit = 9700
  /\ trades[2].result = "loss"
  /\ trades[2].pnl_usd = -300

====
